---- MODULE Spec2Model ----
(***************************************************************************)
(* packet-ipc: a one-shot rendezvous (Server), the sink it yields          *)
(* (ConnectedIpc) and the peer that dials in and reads frames until the    *)
(* None sentinel.  The module follows src/server.rs and src/packet.rs.     *)
(***************************************************************************)
EXTENDS Integers, Sequences, FiniteSets, TLC

\* ----------------------------------------------------------------- bounds
\* The Sink calls made on all links together: MaxCalls when one Server was
\* made, MaxPairCalls when both were.
MaxCalls == 3
MaxPairCalls == 2

\* The records put through the wire-record adapter on their own: seconds
\* and nanoseconds up to MaxSecs and MaxNanos, payloads of up to MaxPayload
\* bytes, each 0 .. MaxByte.
MaxSecs == 1
MaxNanos == 1
MaxByte == 2
MaxPayload == 2

\* The rendezvous names a peer may dial, and the peers.
Links == {1, 2}
Peers == {1, 2}

\* ------------------------------------------------------------ packet.rs
\* std::time::SystemTime as serde writes it: seconds and nanoseconds since
\* the epoch.  UNIX_EPOCH is the timestamp the tests use.
UNIX_EPOCH == [secs |-> 0, nanos |-> 0]

\* Packet::new(ts, data)
Packet(ts, data) == [ts |-> ts, data |-> data]

\* The conversion with the timestamp left at the epoch.
ToIpcPacket_epoch(p) == [timestamp |-> UNIX_EPOCH, data |-> p.data]

\* impl<T: AsIpcPacket> From<&T> for IpcPacket
ToIpcPacket(p) == [timestamp |-> p.ts, data |-> p.data]

\* impl From<IpcPacket> for Packet
FromIpcPacket(v) == [ts |-> v.timestamp, data |-> v.data]

\* #[derive(Serialize)] IpcPacket: the fields in order, the payload as a
\* length-prefixed block of raw bytes (serde_bytes).
SerializeIpcPacket(v) ==
    <<v.timestamp.secs, v.timestamp.nanos, Len(v.data)>> \o v.data

\* impl_ipc_serialize!(Packet)
SerializePacket(p) == SerializeIpcPacket(ToIpcPacket(p))

\* The batches the sender hands to the sink: the batch of test_sending, the
\* batch of test_sink, an empty batch and a batch of two packets.
Batches ==
    { <<>>,
      <<Packet(UNIX_EPOCH, <<2>>)>>,
      <<Packet(UNIX_EPOCH, <<0>>), Packet([secs |-> 1, nanos |-> 5], <<>>)>> }

\* ------------------------------------------ Option<Vec<Packet>> on the wire
Some(item) == [some |-> TRUE, batch |-> item]
None == [some |-> FALSE, batch |-> <<>>]

RECURSIVE SerializeVec(_)
SerializeVec(item) ==
    IF item = <<>> THEN <<>>
    ELSE SerializePacket(Head(item)) \o SerializeVec(Tail(item))

\* IpcSender<Option<Vec<Packet>>>::send writes the Option's tag, then the
\* length of the Vec and its packets.
SerializeFrame(f) ==
    IF f.some THEN <<1, Len(f.batch)>> \o SerializeVec(f.batch) ELSE <<0>>

\* impl Deserialize for Packet: an IpcPacket is read off the front of the
\* bytes and converted; the result is the packet and the bytes left.
DeserializePacket(bytes) ==
    LET len == bytes[3]
        v == [timestamp |-> [secs |-> bytes[1], nanos |-> bytes[2]],
              data |-> SubSeq(bytes, 4, 3 + len)]
    IN  [packet |-> FromIpcPacket(v), rest |-> SubSeq(bytes, 4 + len, Len(bytes))]

RECURSIVE DeserializeVec(_, _)
DeserializeVec(bytes, n) ==
    IF n = 0 THEN <<>>
    ELSE LET r == DeserializePacket(bytes)
         IN  <<r.packet>> \o DeserializeVec(r.rest, n - 1)

\* IpcReceiver<Option<Vec<Packet>>>::recv reads the tag first.
DeserializeFrame(bytes) ==
    IF bytes[1] = 0 THEN None
    ELSE Some(DeserializeVec(SubSeq(bytes, 3, Len(bytes)), bytes[2]))

\* ------------------------------------------------------------------ state
VARIABLES
    endpoint,    \* Links -> "Created" | "Connected" | "Failed": the Server ("Absent": none)
    accept_pc,   \* Links -> where Server::accept is: idle, future, blocked, done, dropped
                 \*          ("absent": no Server was made under that name)
    pending,     \* Links -> bootstrap messages waiting on the one-shot server
    connection,  \* Links -> ConnectedIpc.connection: the peer whose handle it is, 0 if no link
    sink,        \* Links -> "none" | "open" | "dropped": the ConnectedIpc value
    calls,       \* Links -> the Sink calls made on the link so far, with their results
    peer_pc,     \* Peers -> init, dialed, loop, done, failed, refused, gone
    target,      \* Peers -> the link whose name the peer dialed, 0 before it dials
    chan,        \* Peers -> encoded frames in flight to the peer's receiver
    received,    \* Peers -> the frames rx.recv() has returned to the peer
    count,       \* Peers -> the count of the peer's receive loop
    record,      \* the Packet put through the adapter on its own
    wire,        \* its bytes, once serialized
    decoded,     \* the Packet read back from the bytes
    codec_pc     \* "off" | "new" | "encoded" | "decoded"

serverVars == <<endpoint, accept_pc, pending>>
linkVars == <<connection, sink, calls>>
peerVars == <<peer_pc, target>>
rxVars == <<chan, received, count>>
codecVars == <<record, wire, decoded, codec_pc>>
ipcVars == <<endpoint, accept_pc, pending, connection, sink, calls,
             peer_pc, target, chan, received, count>>
vars == <<endpoint, accept_pc, pending, connection, sink, calls,
          peer_pc, target, chan, received, count,
          record, wire, decoded, codec_pc>>

\* Server::new() has returned a Server for every link of `made`; the other
\* names were never published.  Every peer has made its ipc::channel().
IpcInit(made) ==
    /\ endpoint = [l \in Links |-> IF l \in made THEN "Created" ELSE "Absent"]
    /\ accept_pc = [l \in Links |-> IF l \in made THEN "idle" ELSE "absent"]
    /\ pending = [l \in Links |-> <<>>]
    /\ connection = [l \in Links |-> 0]
    /\ sink = [l \in Links |-> "none"]
    /\ calls = [l \in Links |-> <<>>]
    /\ peer_pc = [p \in Peers |-> "init"]
    /\ target = [p \in Peers |-> 0]
    /\ chan = [p \in Peers |-> <<>>]
    /\ received = [p \in Peers |-> <<>>]
    /\ count = [p \in Peers |-> 0]

\* No packet is put through the adapter on its own.
InitWith(made) ==
    /\ IpcInit(made)
    /\ record = Packet(UNIX_EPOCH, <<>>)
    /\ wire = <<>>
    /\ decoded = Packet(UNIX_EPOCH, <<>>)
    /\ codec_pc = "off"

\* The tests make one Server each.
Made == {1}

Init == InitWith(Made)

\* The one-shot server of the link is alive: the Server, or the accept
\* future that owns it, has not been consumed or dropped.
Listening(l) == accept_pc[l] \in {"idle", "future", "blocked"}

\* The peer still holds its receiver.
ReceiverAlive(p) == peer_pc[p] \in {"init", "dialed", "loop", "refused"}

RECURSIVE TotalCalls(_)
TotalCalls(ls) ==
    IF ls = {} THEN 0
    ELSE LET l == CHOOSE x \in ls : TRUE
         IN  Len(calls[l]) + TotalCalls(ls \ {l})

\* ---------------------------------------------------------------- Server
\* server.accept(): an async fn; the call only builds the future, which
\* takes the Server by value.
accept_call(l) ==
    /\ accept_pc[l] = "idle"
    /\ accept_pc' = [accept_pc EXCEPT ![l] = "future"]
    /\ UNCHANGED <<endpoint, pending, linkVars, peerVars, rxVars, codecVars>>

\* block_on(future_accept): the first poll runs the body up to the blocking
\* IpcOneShotServer::accept().
accept_poll(l) ==
    /\ accept_pc[l] = "future"
    /\ accept_pc' = [accept_pc EXCEPT ![l] = "blocked"]
    /\ UNCHANGED <<endpoint, pending, linkVars, peerVars, rxVars, codecVars>>

\* accept that takes a registration and keeps the one-shot server for more.
accept_keeps_server(l) ==
    /\ accept_pc[l] = "blocked"
    /\ pending[l] # <<>>
    /\ LET m == Head(pending[l])
       IN  IF m.ok
           THEN /\ endpoint' = [endpoint EXCEPT ![l] = "Connected"]
                /\ connection' = [connection EXCEPT ![l] = m.peer]
                /\ sink' = [sink EXCEPT ![l] = "open"]
                /\ UNCHANGED accept_pc
           ELSE /\ endpoint' = [endpoint EXCEPT ![l] = "Failed"]
                /\ accept_pc' = [accept_pc EXCEPT ![l] = "done"]
                /\ UNCHANGED <<connection, sink>>
    /\ pending' = [pending EXCEPT ![l] = Tail(@)]
    /\ UNCHANGED <<calls, peerVars, rxVars, codecVars>>

\* accept that reports a malformed bootstrap message and goes on waiting.
accept_retry(l) ==
    /\ accept_pc[l] = "blocked"
    /\ pending[l] # <<>>
    /\ LET m == Head(pending[l])
       IN  IF m.ok
           THEN /\ endpoint' = [endpoint EXCEPT ![l] = "Connected"]
                /\ connection' = [connection EXCEPT ![l] = m.peer]
                /\ sink' = [sink EXCEPT ![l] = "open"]
                /\ accept_pc' = [accept_pc EXCEPT ![l] = "done"]
                /\ pending' = [pending EXCEPT ![l] = <<>>]
           ELSE /\ endpoint' = [endpoint EXCEPT ![l] = "Failed"]
                /\ pending' = [pending EXCEPT ![l] = Tail(@)]
                /\ UNCHANGED <<accept_pc, connection, sink>>
    /\ UNCHANGED <<calls, peerVars, rxVars, codecVars>>

\* accept that does not wait: with no registration yet it returns an error.
accept_nowait(l) ==
    /\ accept_pc[l] = "blocked"
    /\ IF pending[l] # <<>> /\ Head(pending[l]).ok
       THEN /\ endpoint' = [endpoint EXCEPT ![l] = "Connected"]
            /\ connection' = [connection EXCEPT ![l] = Head(pending[l]).peer]
            /\ sink' = [sink EXCEPT ![l] = "open"]
       ELSE /\ endpoint' = [endpoint EXCEPT ![l] = "Failed"]
            /\ UNCHANGED <<connection, sink>>
    /\ accept_pc' = [accept_pc EXCEPT ![l] = "done"]
    /\ pending' = [pending EXCEPT ![l] = <<>>]
    /\ UNCHANGED <<calls, peerVars, rxVars, codecVars>>

\* Server::accept, from the return of self.server.accept() on: the first
\* bootstrap message is decoded; a malformed one is Err(Error::Bincode), a
\* handle becomes ConnectedIpc { connection: tx }.  The one-shot server is
\* consumed either way.
accept(l) ==
    /\ accept_pc[l] = "blocked"
    /\ pending[l] # <<>>
    /\ LET m == Head(pending[l])
       IN  IF m.ok
           THEN /\ endpoint' = [endpoint EXCEPT ![l] = "Connected"]
                /\ connection' = [connection EXCEPT ![l] = m.peer]
                /\ sink' = [sink EXCEPT ![l] = "open"]
           ELSE /\ endpoint' = [endpoint EXCEPT ![l] = "Failed"]
                /\ UNCHANGED <<connection, sink>>
    /\ accept_pc' = [accept_pc EXCEPT ![l] = "done"]
    /\ pending' = [pending EXCEPT ![l] = <<>>]
    /\ UNCHANGED <<calls, peerVars, rxVars, codecVars>>

\* The Server is dropped without accept.
abandon(l) ==
    /\ accept_pc[l] = "idle"
    /\ accept_pc' = [accept_pc EXCEPT ![l] = "dropped"]
    /\ pending' = [pending EXCEPT ![l] = <<>>]
    /\ UNCHANGED <<endpoint, linkVars, peerVars, rxVars, codecVars>>

\* ---------------------------------------------- impl Sink for ConnectedIpc
Call(op, item, ok) == [op |-> op, item |-> item, ok |-> ok]

CallBudget ==
    IF \A k \in Links : endpoint[k] # "Absent" THEN MaxPairCalls ELSE MaxCalls

CanCall(l) == sink[l] = "open" /\ TotalCalls(Links) < CallBudget

\* The send with one connection shared by every ConnectedIpc: the frame
\* goes to the peer of every link.
ConnectionSend_shared(l, frame) ==
    [ok |-> ReceiverAlive(connection[l]),
     chan |-> [q \in Peers |->
                 IF (\E k \in Links : connection[k] = q) /\ ReceiverAlive(q)
                 THEN Append(chan[q], SerializeFrame(frame))
                 ELSE chan[q]]]

\* self.connection.send(frame): the frame is written to the peer's channel
\* unless the receiving end is gone; the result is TRUE for Ok(()).
ConnectionSend(l, frame) ==
    IF ReceiverAlive(connection[l])
    THEN [ok |-> TRUE,
          chan |-> [chan EXCEPT ![connection[l]] = Append(@, SerializeFrame(frame))]]
    ELSE [ok |-> FALSE, chan |-> chan]

poll_ready(l) ==
    /\ CanCall(l)
    /\ calls' = [calls EXCEPT ![l] = Append(@, Call("ready", <<>>, TRUE))]
    /\ UNCHANGED <<serverVars, connection, sink, peerVars, rxVars, codecVars>>

\* start_send that sends every packet of the batch as a frame of its own.
start_send_split(l, item) ==
    /\ CanCall(l)
    /\ LET p == connection[l]
           frames == [i \in 1 .. Len(item) |-> SerializeFrame(Some(<<item[i]>>))]
       IN  /\ chan' = IF ReceiverAlive(p)
                      THEN [chan EXCEPT ![p] = @ \o frames]
                      ELSE chan
           /\ calls' = [calls EXCEPT ![l] =
                           Append(@, Call("send", item, ReceiverAlive(p)))]
    /\ UNCHANGED <<serverVars, connection, sink, peerVars, received, count, codecVars>>

\* start_send that logs the send error and returns Ok(()).
start_send_swallow(l, item) ==
    /\ CanCall(l)
    /\ LET r == ConnectionSend(l, Some(item))
       IN  /\ chan' = r.chan
           /\ calls' = [calls EXCEPT ![l] = Append(@, Call("send", item, TRUE))]
    /\ UNCHANGED <<serverVars, connection, sink, peerVars, received, count, codecVars>>

\* start_send with the frame written twice.
start_send_twice(l, item) ==
    /\ CanCall(l)
    /\ LET r == ConnectionSend(l, Some(item))
       IN  /\ chan' = IF r.ok
                      THEN [r.chan EXCEPT ![connection[l]] =
                               Append(@, SerializeFrame(Some(item)))]
                      ELSE r.chan
           /\ calls' = [calls EXCEPT ![l] = Append(@, Call("send", item, r.ok))]
    /\ UNCHANGED <<serverVars, connection, sink, peerVars, received, count, codecVars>>

start_send(l, item) ==
    /\ CanCall(l)
    /\ LET r == ConnectionSend(l, Some(item))
       IN  /\ chan' = r.chan
           /\ calls' = [calls EXCEPT ![l] = Append(@, Call("send", item, r.ok))]
    /\ UNCHANGED <<serverVars, connection, sink, peerVars, received, count, codecVars>>

\* poll_flush that pushes an empty batch through the connection.
poll_flush_heartbeat(l) ==
    /\ CanCall(l)
    /\ LET r == ConnectionSend(l, Some(<<>>))
       IN  /\ chan' = r.chan
           /\ calls' = [calls EXCEPT ![l] = Append(@, Call("flush", <<>>, r.ok))]
    /\ UNCHANGED <<serverVars, connection, sink, peerVars, received, count, codecVars>>

poll_flush(l) ==
    /\ CanCall(l)
    /\ calls' = [calls EXCEPT ![l] = Append(@, Call("flush", <<>>, TRUE))]
    /\ UNCHANGED <<serverVars, connection, sink, peerVars, rxVars, codecVars>>

\* poll_close that reports Ok(()) and sends no sentinel.
poll_close_silent(l) ==
    /\ CanCall(l)
    /\ calls' = [calls EXCEPT ![l] = Append(@, Call("close", <<>>, TRUE))]
    /\ UNCHANGED <<serverVars, connection, sink, peerVars, rxVars, codecVars>>

poll_close(l) ==
    /\ CanCall(l)
    /\ LET r == ConnectionSend(l, None)
       IN  /\ chan' = r.chan
           /\ calls' = [calls EXCEPT ![l] = Append(@, Call("close", <<>>, r.ok))]
    /\ UNCHANGED <<serverVars, connection, sink, peerVars, received, count, codecVars>>

\* A drop that sends the sentinel on the way out.
drop_sink_sentinel(l) ==
    /\ sink[l] = "open"
    /\ sink' = [sink EXCEPT ![l] = "dropped"]
    /\ chan' = ConnectionSend(l, None).chan
    /\ UNCHANGED <<serverVars, connection, calls, peerVars, received, count, codecVars>>

\* The ConnectedIpc goes out of scope.
drop_sink(l) ==
    /\ sink[l] = "open"
    /\ sink' = [sink EXCEPT ![l] = "dropped"]
    /\ UNCHANGED <<serverVars, connection, calls, peerVars, rxVars, codecVars>>

\* ------------------------------------------------------------------ peer
\* IpcSender::connect(server_name)
connect(p, l) ==
    /\ peer_pc[p] = "init"
    /\ target' = [target EXCEPT ![p] = l]
    /\ peer_pc' = [peer_pc EXCEPT ![p] = IF Listening(l) THEN "dialed" ELSE "refused"]
    /\ UNCHANGED <<serverVars, linkVars, rxVars, codecVars>>

\* server_sender.send(tx): the bootstrap message; wellFormed is FALSE for a
\* message that does not decode to a handle.
bootstrap(p, wellFormed) ==
    /\ peer_pc[p] = "dialed"
    /\ IF Listening(target[p])
       THEN /\ pending' = [pending EXCEPT ![target[p]] =
                              Append(@, [peer |-> p, ok |-> wellFormed])]
            /\ peer_pc' = [peer_pc EXCEPT ![p] = "loop"]
       ELSE /\ peer_pc' = [peer_pc EXCEPT ![p] = "refused"]
            /\ UNCHANGED pending
    /\ UNCHANGED <<endpoint, accept_pc, linkVars, target, rxVars, codecVars>>

\* The receive loop ending on an empty batch as it does on None.
recv_stop_on_empty(p) ==
    /\ peer_pc[p] = "loop"
    /\ chan[p] # <<>>
    /\ LET f == DeserializeFrame(Head(chan[p]))
       IN  /\ received' = [received EXCEPT ![p] = Append(@, f)]
           /\ count' = [count EXCEPT ![p] = IF f.some THEN @ + Len(f.batch) ELSE @]
           /\ peer_pc' = [peer_pc EXCEPT ![p] =
                             IF f.some /\ f.batch # <<>> THEN "loop" ELSE "done"]
    /\ chan' = [chan EXCEPT ![p] = Tail(@)]
    /\ UNCHANGED <<serverVars, linkVars, target, codecVars>>

\* The receive loop counting frames instead of records.
recv_count_frames(p) ==
    /\ peer_pc[p] = "loop"
    /\ chan[p] # <<>>
    /\ LET f == DeserializeFrame(Head(chan[p]))
       IN  /\ received' = [received EXCEPT ![p] = Append(@, f)]
           /\ count' = [count EXCEPT ![p] = IF f.some THEN @ + 1 ELSE @]
           /\ peer_pc' = [peer_pc EXCEPT ![p] = IF f.some THEN "loop" ELSE "done"]
    /\ chan' = [chan EXCEPT ![p] = Tail(@)]
    /\ UNCHANGED <<serverVars, linkVars, target, codecVars>>

\* One turn of `while let Some(p) = rx.recv().expect(..)`.
recv(p) ==
    /\ peer_pc[p] = "loop"
    /\ chan[p] # <<>>
    /\ LET f == DeserializeFrame(Head(chan[p]))
       IN  /\ received' = [received EXCEPT ![p] = Append(@, f)]
           /\ count' = [count EXCEPT ![p] = IF f.some THEN @ + Len(f.batch) ELSE @]
           /\ peer_pc' = [peer_pc EXCEPT ![p] = IF f.some THEN "loop" ELSE "done"]
    /\ chan' = [chan EXCEPT ![p] = Tail(@)]
    /\ UNCHANGED <<serverVars, linkVars, target, codecVars>>

\* A sender for the peer's channel exists: its handle waits in a bootstrap
\* message or is the connection of a live ConnectedIpc.
SenderAlive(p) ==
    \/ \E l \in Links : \E i \in 1 .. Len(pending[l]) :
          pending[l][i].peer = p /\ pending[l][i].ok
    \/ \E l \in Links : connection[l] = p /\ sink[l] = "open"

\* rx.recv() on an empty channel with every sender gone is an error, and
\* expect() panics.
recv_disconnected(p) ==
    /\ peer_pc[p] = "loop"
    /\ chan[p] = <<>>
    /\ ~SenderAlive(p)
    /\ peer_pc' = [peer_pc EXCEPT ![p] = "failed"]
    /\ UNCHANGED <<serverVars, linkVars, target, rxVars, codecVars>>

\* The peer goes away while it waits for frames: its receiver is dropped.
peer_gone(p) ==
    /\ peer_pc[p] = "loop"
    /\ peer_pc' = [peer_pc EXCEPT ![p] = "gone"]
    /\ UNCHANGED <<serverVars, linkVars, target, rxVars, codecVars>>

\* ------------------------------------------------------------------ spec
Next ==
    \/ \E l \in Links : accept_call(l)
    \/ \E l \in Links : accept_poll(l)
    \/ \E l \in Links : accept(l)
    \/ \E l \in Links : abandon(l)
    \/ \E l \in Links : poll_ready(l)
    \/ \E l \in Links : \E item \in Batches : start_send(l, item)
    \/ \E l \in Links : poll_flush(l)
    \/ \E l \in Links : poll_close(l)
    \/ \E l \in Links : drop_sink(l)
    \/ \E p \in Peers : \E l \in Links : connect(p, l)
    \/ \E p \in Peers : \E wellFormed \in BOOLEAN : bootstrap(p, wellFormed)
    \/ \E p \in Peers : recv(p)
    \/ \E p \in Peers : recv_disconnected(p)
    \/ \E p \in Peers : peer_gone(p)

Spec == Init /\ [][Next]_vars

\* Two Servers, each with its own name.
PairInit == InitWith(Links)

PairSpec == PairInit /\ [][Next]_vars

\* The thread that runs block_on(future_accept) keeps running: the future
\* is polled, and the blocking accept returns once a message is there.
AcceptLiveSpec ==
    /\ Spec
    /\ \A l \in Made : WF_vars(accept_poll(l)) /\ WF_vars(accept(l))

\* The peer's receiving thread keeps running: its loop takes the next frame
\* when there is one.
RecvLiveSpec ==
    /\ Spec
    /\ \A p \in Peers : WF_vars(recv(p))

\* ------------------------------------------------- the adapter on its own
RECURSIVE SeqsUpTo(_, _)
SeqsUpTo(S, n) ==
    IF n = 0 THEN {<<>>}
    ELSE LET shorter == SeqsUpTo(S, n - 1)
         IN  shorter \cup {Append(q, x) : q \in shorter, x \in S}

\* The Packets the adapter is tried on, the empty payload among them.
Records ==
    {Packet([secs |-> s, nanos |-> n], d) :
        s \in 0 .. MaxSecs, n \in 0 .. MaxNanos, d \in SeqsUpTo(0 .. MaxByte, MaxPayload)}

CodecInit ==
    /\ IpcInit({})
    /\ record \in Records
    /\ wire = <<>>
    /\ decoded = Packet(UNIX_EPOCH, <<>>)
    /\ codec_pc = "new"

\* impl serde::Serialize for Packet
serialize ==
    /\ codec_pc = "new"
    /\ wire' = SerializePacket(record)
    /\ codec_pc' = "encoded"
    /\ UNCHANGED <<record, decoded, ipcVars>>

\* impl Deserialize for Packet
deserialize ==
    /\ codec_pc = "encoded"
    /\ decoded' = DeserializePacket(wire).packet
    /\ codec_pc' = "decoded"
    /\ UNCHANGED <<record, wire, ipcVars>>

CodecNext == serialize \/ deserialize

CodecSpec == CodecInit /\ [][CodecNext]_vars

\* ----------------------------------------------------- what was observed
\* The frames the successful send and close calls of a history transmit, in
\* call order.
RECURSIVE FramesOf(_)
FramesOf(cs) ==
    IF cs = <<>> THEN <<>>
    ELSE LET c == Head(cs)
             f == IF ~c.ok THEN <<>>
                  ELSE IF c.op = "send" THEN <<Some(c.item)>>
                  ELSE IF c.op = "close" THEN <<None>>
                  ELSE <<>>
         IN  f \o FramesOf(Tail(cs))

\* The send and close calls of a history (ready and flush left out).
Transmitting(cs) == SelectSeq(cs, LAMBDA c : c.op \in {"send", "close"})

\* Every frame put on the peer's channel so far: those its receiver has
\* taken, then those in flight.
Wire(p) == received[p] \o [i \in 1 .. Len(chan[p]) |-> DeserializeFrame(chan[p][i])]

IsPrefix(s, t) == Len(s) <= Len(t) /\ s = SubSeq(t, 1, Len(s))

\* The links that exist: accept has returned a ConnectedIpc.
Linked == {l \in Links : sink[l] # "none"}

\* A history of successful sends followed by one successful close.
SendsThenOneClose(cs) ==
    LET t == Transmitting(cs)
    IN  /\ t # <<>>
        /\ \A i \in 1 .. Len(t) : t[i].ok
        /\ t[Len(t)].op = "close"
        /\ \A i \in 1 .. Len(t) - 1 : t[i].op = "send"

\* ----------------------------------------------------------------- claims
\* C1 (sentinel terminality): when the calls made on a link are successful
\* sends followed by one successful close, the frames on the peer's channel
\* are exactly Some(batch) for each send in call order and then one None;
\* the receiver has observed a prefix of them, and all of them, None last,
\* when its loop has ended.
SentinelTerminality ==
    \A l \in Linked :
        SendsThenOneClose(calls[l]) =>
            LET p == connection[l]
                t == Transmitting(calls[l])
                expected == [i \in 1 .. Len(t) |->
                                IF i < Len(t) THEN Some(t[i].item) ELSE None]
            IN  /\ Wire(p) = expected
                /\ IsPrefix(received[p], expected)
                /\ peer_pc[p] = "done" => received[p] = expected

\* C1 witness: two batches were sent and the link closed, and the receiver
\* has read all three frames.
SentinelTerminalityWitness ==
    \E l \in Linked :
        /\ SendsThenOneClose(calls[l])
        /\ Len(Transmitting(calls[l])) = 3
        /\ peer_pc[connection[l]] = "done"
        /\ Len(received[connection[l]]) = 3

\* C2 (send after close is rejected), as claimed: a send made on a link
\* after a close was made on it returns an error.
SendAfterCloseRejected ==
    \A l \in Linked :
        \A i, j \in 1 .. Len(calls[l]) :
            (i < j /\ calls[l][i].op = "close" /\ calls[l][j].op = "send")
                => ~calls[l][j].ok

\* C3 (one sentinel, and last), as claimed: at most one None frame is on a
\* peer's channel, and no frame follows it.
OneSentinelLast ==
    \A p \in Peers :
        \A i \in 1 .. Len(Wire(p)) : Wire(p)[i] = None => i = Len(Wire(p))

\* C4 (single-link FIFO): at every point the frames the receiver has
\* observed are a prefix of the frames the successful calls transmitted, in
\* call order, and observed plus in-flight frames are exactly those frames:
\* none lost, duplicated or reordered.
SingleLinkFifo ==
    \A l \in Linked :
        LET p == connection[l]
        IN  /\ IsPrefix(received[p], FramesOf(calls[l]))
            /\ Wire(p) = FramesOf(calls[l])

\* C4 witness: the receiver has taken a first batch while a different
\* second frame is still in flight.
SingleLinkFifoWitness ==
    \E l \in Linked :
        LET p == connection[l]
        IN  /\ Len(received[p]) >= 1
            /\ Len(chan[p]) >= 1
            /\ received[p][1] # DeserializeFrame(chan[p][1])
            /\ received[p][1].some

\* The peer has sent its bootstrap message to the link's name.
Registered(p, l) ==
    target[p] = l /\ peer_pc[p] \in {"loop", "done", "failed", "gone"}

\* The identifier of the link was redeemed by an accept, or its endpoint
\* was dropped without one.
Redeemed(l) == endpoint[l] \in {"Connected", "Failed"}
Abandoned(l) == accept_pc[l] = "dropped"

\* C5 (one-shot exclusivity): once the identifier is redeemed or abandoned,
\* every step in which a peer dials it or sends it a bootstrap message ends
\* with that peer refused, no registration is queued for it, and the peer
\* the link is connected to never changes.
OneShotExclusivity ==
    [][\A l \in Links :
          (Redeemed(l) \/ Abandoned(l)) =>
              /\ pending[l] = <<>> /\ pending'[l] = <<>>
              /\ connection'[l] = connection[l]
              /\ \A p \in Peers :
                    /\ (peer_pc[p] = "init" /\ peer_pc'[p] # "init" /\ target'[p] = l)
                          => peer_pc'[p] = "refused"
                    /\ (peer_pc[p] = "dialed" /\ peer_pc'[p] # "dialed" /\ target[p] = l)
                          => peer_pc'[p] = "refused"]_vars

\* C5 witness: one peer is connected to the link and another, which dialed
\* the same name afterwards, was refused.
OneShotExclusivityWitness ==
    \E l \in Links : \E p, q \in Peers :
        /\ endpoint[l] = "Connected" /\ connection[l] = p
        /\ q # p /\ target[q] = l /\ peer_pc[q] = "refused"

\* C6 (endpoint state machine): the endpoint changes state only from
\* Created, to Connected or Failed, in the step in which accept returns and
\* is consumed; a link appears only with Created -> Connected; Failed has no
\* link; after accept has returned the endpoint never changes again.
EndpointStateMachine ==
    [][\A l \in Links :
          /\ endpoint'[l] # endpoint[l] =>
                /\ endpoint[l] = "Created"
                /\ endpoint'[l] \in {"Connected", "Failed"}
                /\ accept_pc[l] = "blocked" /\ accept_pc'[l] = "done"
          /\ (sink[l] = "none" /\ sink'[l] # "none") =>
                (endpoint[l] = "Created" /\ endpoint'[l] = "Connected")
          /\ endpoint'[l] = "Failed" => (sink'[l] = "none" /\ connection'[l] = 0)
          /\ accept_pc[l] = "done" =>
                (accept_pc'[l] = "done" /\ endpoint'[l] = endpoint[l])]_vars

\* C6 witness: an accept failed, it left no link, and a peer that tried the
\* name afterwards was refused.
EndpointStateMachineWitness ==
    \E l \in Links : \E p \in Peers :
        /\ endpoint[l] = "Failed" /\ sink[l] = "none"
        /\ target[p] = l /\ peer_pc[p] = "refused"

\* C7 (rendezvous): accept has returned only if a peer has sent a bootstrap
\* message to the name; a connected link holds the handle of a peer that
\* registered with that name, and frames reach only such a peer; and once a
\* well-formed bootstrap message of peer p is first in line while accept is
\* called (polled already or not), accept eventually returns the link to p.
AcceptRendezvous ==
    /\ [](\A l \in Links :
             /\ accept_pc[l] = "done" => \E p \in Peers : Registered(p, l)
             /\ endpoint[l] = "Connected" =>
                   (connection[l] \in Peers /\ Registered(connection[l], l)))
    /\ [](\A p \in Peers :
             Wire(p) # <<>> => \E l \in Links : connection[l] = p /\ target[p] = l)
    /\ \A l \in Made : \A p \in Peers :
          (/\ accept_pc[l] \in {"future", "blocked"}
           /\ pending[l] # <<>>
           /\ Head(pending[l]) = [peer |-> p, ok |-> TRUE])
             ~> (endpoint[l] = "Connected" /\ connection[l] = p)

\* C7 witness: the link is connected to the peer that registered and that
\* peer has received a frame sent on the link.
AcceptRendezvousWitness ==
    \E l \in Links :
        /\ endpoint[l] = "Connected"
        /\ Registered(connection[l], l)
        /\ received[connection[l]] # <<>>

\* C8 (empty-batch transparency): every successful send of an empty batch
\* put a Some([]) frame, encoded otherwise than None, in the place of that
\* call on the peer's channel; a receive loop that has ended has read one
\* None, as its last frame, and only data frames before it; and a loop that
\* waits on an empty channel has observed every frame transmitted.
EmptyBatchTransparency ==
    \A l \in Linked :
        LET p == connection[l]
        IN  /\ \A i \in 1 .. Len(calls[l]) :
                  calls[l][i] = Call("send", <<>>, TRUE) =>
                      LET k == Len(FramesOf(SubSeq(calls[l], 1, i)))
                      IN  /\ Wire(p)[k] = Some(<<>>)
                          /\ Wire(p)[k] # None
                          /\ k > Len(received[p]) =>
                                chan[p][k - Len(received[p])] # SerializeFrame(None)
            /\ peer_pc[p] = "done" =>
                  /\ received[p] # <<>>
                  /\ received[p][Len(received[p])] = None
                  /\ \A i \in 1 .. Len(received[p]) - 1 : received[p][i].some
            /\ (peer_pc[p] = "loop" /\ chan[p] = <<>>) =>
                  received[p] = FramesOf(calls[l])

\* C8 witness: the receiver has observed an empty batch and, after it, a
\* batch with records.
EmptyBatchTransparencyWitness ==
    \E p \in Peers : \E i \in 1 .. Len(received[p]) - 1 :
        /\ received[p][i] = Some(<<>>)
        /\ received[p][i + 1].some /\ received[p][i + 1].batch # <<>>

\* The records of the batches sent successfully before the first successful
\* close of a history.
RECURSIVE RecordsBeforeClose(_)
RecordsBeforeClose(cs) ==
    IF cs = <<>> THEN 0
    ELSE LET c == Head(cs)
         IN  IF c.ok /\ c.op = "close" THEN 0
             ELSE (IF c.ok /\ c.op = "send" THEN Len(c.item) ELSE 0)
                     + RecordsBeforeClose(Tail(cs))

ClosedOk(l) == \E i \in 1 .. Len(calls[l]) : calls[l][i] = Call("close", <<>>, TRUE)

\* C9 (termination and count): a receive loop that has ended has counted
\* the sum of the lengths of the batches sent before the close; and once a
\* close has succeeded on a link, the loop of its receiver eventually ends
\* (unless the peer goes away first).
ReceiverTerminatesWithCount ==
    /\ [](\A l \in Linked :
             peer_pc[connection[l]] = "done" =>
                 count[connection[l]] = RecordsBeforeClose(calls[l]))
    /\ \A l \in Made :
          (l \in Linked /\ ClosedOk(l))
             ~> (l \in Linked /\ peer_pc[connection[l]] \in {"done", "gone"})

\* C9 witness: batches of one and of two records were sent, the link was
\* closed, and the loop has ended with a count of 3.
ReceiverTerminatesWithCountWitness ==
    \E l \in Linked :
        /\ ClosedOk(l)
        /\ peer_pc[connection[l]] = "done"
        /\ count[connection[l]] = 3

\* C10 (failures surface): in every step that makes a send or close call,
\* the call returns an error exactly when the peer's receiver is gone; a
\* failed call leaves every channel as it was and a successful one appends
\* its frame; and a frame is added to a channel only by the successful call
\* of that step, never later on behalf of a failed one.
FailureSurfaces ==
    [][/\ \A l \in Links :
             Len(calls'[l]) > Len(calls[l]) =>
                 LET c == calls'[l][Len(calls'[l])]
                     p == connection[l]
                 IN  c.op \in {"send", "close"} =>
                         /\ c.ok = ReceiverAlive(p)
                         /\ ~c.ok => (chan' = chan /\ received' = received)
                         /\ c.ok => chan'[p] = Append(chan[p], SerializeFrame(
                                        IF c.op = "send" THEN Some(c.item) ELSE None))
       /\ \A p \in Peers :
             Len(chan'[p]) > Len(chan[p]) =>
                 \E l \in Links :
                     /\ connection[l] = p
                     /\ Len(calls'[l]) > Len(calls[l])
                     /\ calls'[l][Len(calls'[l])].ok]_vars

\* C10 witness: a send and a close have both returned an error, and neither
\* added a frame for the peer, which had read what was sent before.
FailureSurfacesWitness ==
    \E l \in Linked :
        /\ \E i \in 1 .. Len(calls[l]) : calls[l][i].op = "send" /\ ~calls[l][i].ok
        /\ \E i \in 1 .. Len(calls[l]) : calls[l][i].op = "close" /\ ~calls[l][i].ok
        /\ chan[connection[l]] = <<>>
        /\ Len(received[connection[l]]) = 1

\* C11 (round trip): a Packet that was serialized and read back has the
\* timestamp and the payload bytes, in order, of the Packet that went in,
\* and the reading used up every byte written.
RoundTrip ==
    codec_pc = "decoded" =>
        /\ decoded.ts = record.ts
        /\ decoded.data = record.data
        /\ DeserializePacket(wire).rest = <<>>

\* C11 witness: a Packet with a timestamp after the epoch and a payload of
\* two different bytes has gone through the adapter and back.
RoundTripWitness ==
    /\ codec_pc = "decoded"
    /\ record.ts.secs > 0 /\ record.ts.nanos > 0
    /\ Len(record.data) = 2 /\ record.data[1] # record.data[2]
    /\ Len(wire) = 5

\* C12 (ready and flush): every step that makes a ready or flush call
\* returns Ok(()), whether or not the peer still receives, puts no frame on
\* any channel and leaves the link, the endpoint, the peers and what they
\* have received as they were.
ReadyFlushNoEffect ==
    [][\A l \in Links :
          (/\ Len(calls'[l]) > Len(calls[l])
           /\ calls'[l][Len(calls'[l])].op \in {"ready", "flush"}) =>
              /\ calls'[l][Len(calls'[l])].ok
              /\ chan' = chan /\ received' = received /\ count' = count
              /\ connection' = connection /\ sink' = sink
              /\ serverVars' = serverVars /\ peerVars' = peerVars]_vars

\* C12 witness: ready was called before any send and flush after a close
\* that had failed because the peer was gone; both returned Ok(()) and the
\* channel is empty.
ReadyFlushNoEffectWitness ==
    \E l \in Linked :
        /\ Len(calls[l]) = 3
        /\ calls[l][1] = Call("ready", <<>>, TRUE)
        /\ calls[l][2] = Call("close", <<>>, FALSE)
        /\ calls[l][3] = Call("flush", <<>>, TRUE)
        /\ Wire(connection[l]) = <<>>

\* C13 (one frame per send): the step of a successful send leaves the
\* peer's channel one frame longer, with the frames before it untouched and
\* the new, last frame decoding to Some(batch) with the records of the call
\* in their order; no other channel changes.  The frame is there when the
\* call returns: no flush is part of the step.
OneFramePerSend ==
    [][\A l \in Links :
          (/\ Len(calls'[l]) > Len(calls[l])
           /\ calls'[l][Len(calls'[l])].op = "send"
           /\ calls'[l][Len(calls'[l])].ok) =>
              LET p == connection[l]
                  item == calls'[l][Len(calls'[l])].item
              IN  /\ Len(chan'[p]) = Len(chan[p]) + 1
                  /\ SubSeq(chan'[p], 1, Len(chan[p])) = chan[p]
                  /\ DeserializeFrame(chan'[p][Len(chan'[p])]) = Some(item)
                  /\ \A q \in Peers \ {p} : chan'[q] = chan[q]]_vars

\* C13 witness: a batch of two packets was sent, no flush was ever called,
\* and the receiver has got the two packets as one frame.
OneFramePerSendWitness ==
    \E l \in Linked :
        /\ \A i \in 1 .. Len(calls[l]) : calls[l][i].op # "flush"
        /\ \E i \in 1 .. Len(calls[l]) :
              calls[l][i].op = "send" /\ calls[l][i].ok /\ Len(calls[l][i].item) = 2
        /\ \E i \in 1 .. Len(received[connection[l]]) :
              Len(received[connection[l]][i].batch) = 2

\* C14 (independent links): with two Servers, a step that makes a call on
\* one link, or creates or drops it, leaves the other link, its calls, its
\* peer's channel and what that peer has received and counted as they were;
\* a step in which a peer registers under one name leaves the other
\* endpoint, its accept and its waiting registrations as they were; and an
\* accept that returns a link returns the handle of a peer that dialed its
\* own name.
LinksIndependent ==
    [][\A l, k \in Links :
          l # k =>
              /\ (calls'[l] # calls[l] \/ sink'[l] # sink[l]) =>
                    /\ calls'[k] = calls[k] /\ sink'[k] = sink[k]
                    /\ connection'[k] = connection[k]
                    /\ endpoint'[k] = endpoint[k]
                    /\ connection[k] # 0 =>
                          /\ chan'[connection[k]] = chan[connection[k]]
                          /\ received'[connection[k]] = received[connection[k]]
                          /\ count'[connection[k]] = count[connection[k]]
              /\ Len(pending'[l]) > Len(pending[l]) =>
                    /\ endpoint'[k] = endpoint[k]
                    /\ accept_pc'[k] = accept_pc[k]
                    /\ pending'[k] = pending[k]
                    /\ connection'[k] = connection[k]
              /\ (endpoint[k] # "Connected" /\ endpoint'[k] = "Connected") =>
                    (connection'[k] # connection'[l] /\ target[connection'[k]] = k)]_vars

\* C14 witness: both links are connected; a send on one failed because its
\* peer was gone, and the peer of the other has received the batch sent to
\* it.
LinksIndependentWitness ==
    \E l, k \in Linked :
        /\ l # k
        /\ \E i \in 1 .. Len(calls[l]) : calls[l][i].op = "send" /\ ~calls[l][i].ok
        /\ Wire(connection[l]) = <<>>
        /\ calls[k] # <<>>
        /\ received[connection[k]] = FramesOf(calls[k])
        /\ received[connection[k]] # <<>>

\* C15 (sentinel only by close): a link's peer has as many None frames on
\* its channel as close calls have succeeded on the link, so none without a
\* close, whatever else was called and whether or not the link or the
\* endpoint was dropped; a peer no link is connected to has no frame at
\* all; and a receive loop has ended cleanly only after such a close.
SentinelOnlyByClose ==
    /\ \A l \in Linked :
          Len(SelectSeq(Wire(connection[l]), LAMBDA f : ~f.some))
              = Len(SelectSeq(calls[l], LAMBDA c : c.op = "close" /\ c.ok))
    /\ \A p \in Peers :
          /\ (\A l \in Linked : connection[l] # p) => Wire(p) = <<>>
          /\ peer_pc[p] = "done" => \E l \in Linked : connection[l] = p /\ ClosedOk(l)

\* C15 witness: batches were sent and flushed, the link was dropped without
\* a close, and the receiver, having read the batches and no None, ended
\* with a receive error.
SentinelOnlyByCloseWitness ==
    \E l \in Linked :
        /\ sink[l] = "dropped"
        /\ Len(calls[l]) = 3
        /\ \A i \in 1 .. Len(calls[l]) : calls[l][i].op \in {"send", "flush"}
        /\ peer_pc[connection[l]] = "failed"
        /\ Len(received[connection[l]]) = 2
        /\ \A i \in 1 .. 2 : received[connection[l]][i].some

====
